---- MODULE Spec2Model ----
(***************************************************************************)
(* Model of parse_tcx.py: extraction of lap and trackpoint records from a  *)
(* TCX document (get_tcx_lap_data, get_tcx_trackpoint_data,                *)
(* get_dataframes) and the alignment script under __main__ that            *)
(* concatenates, shifts and joins the tables of two recording devices.     *)
(*                                                                         *)
(* Conventions.                                                            *)
(*  - A timestamp is an integer count of milliseconds.  A timestamp text   *)
(*    is the record [wall, utcoff]: the wall-clock reading written in the  *)
(*    string and the UTC offset the string carries.                        *)
(*  - Every Python value is a tagged record (field k), so that values of   *)
(*    different Python types can be compared.  NaN is the missing value    *)
(*    pandas puts in a cell no dict supplied.                              *)
(*  - A call either returns a value or raises: see Return and Raise.       *)
(*  - An XML element is [present, empty, chars]: found or not by find(),   *)
(*    text None or not, and the characters of the text as Unicode code     *)
(*    points.                                                              *)
(*  - A DataFrame is the sequence of its rows, a row the record of its     *)
(*    index label and its cells: see DataFrame and set_index.              *)
(***************************************************************************)
EXTENDS Integers, Sequences, FiniteSets, TLC

VARIABLES
    tz,             \* UTC offset of the local zone tzlocal.get_localzone() returns
    lap,            \* the lap node handed to get_tcx_lap_data
    lap_data,       \* what that call produced
    trackpoint,     \* the trackpoint node handed to get_tcx_trackpoint_data
    point_data,     \* what that call produced
    root,           \* the parsed document handed to get_dataframes
    dataframes,     \* what that call produced
    fpath,          \* the files os.listdir(fpath) yields, in the order it yields them
    pc,             \* where the script under __main__ stands
    seen,           \* how many of the files the loop has been through
    laps_df_concept2,       \* the script's variables of these names
    points_df_concept2,
    laps_df_garmin,
    points_df_garmin,
    total_seconds,
    merged_dataframe,
    exc             \* the exception that ended the script, "none" so far

extraction == <<lap, lap_data, trackpoint, point_data, root, dataframes>>

script ==
    <<fpath, pc, seen, laps_df_concept2, points_df_concept2, laps_df_garmin,
      points_df_garmin, total_seconds, merged_dataframe, exc>>

vars == <<tz, extraction, script>>

----------------------------------------------------------------------------
(* Python values *)

NaN == [k |-> "nan"]

\* An int, below 2^31 in size
PyInt(n) == [k |-> "int", v |-> n]
PyTime(ms) == [k |-> "datetime", v |-> ms]

Min(S) == CHOOSE x \in S : \A y \in S : x <= y

\* A finite float, the IEEE 754 double it is: sign * 1.b2b3... * 2^exp in binary
\* with bits = <<1, b2, b3, ...>>, at most 53 of them, the last one a 1.  Zero
\* has no bits (and exp 0); it keeps its sign.
Float(sign, bits, exp) == [k |-> "float", sign |-> sign, bits |-> bits, exp |-> exp]

\* float('inf') and float('-inf')
PyInf(sign) == [k |-> "inf", sign |-> sign]

NotCalled == [exc |-> "not called", returned |-> FALSE, value |-> <<>>]
Return(x) == [exc |-> "none", returned |-> TRUE, value |-> x]
Raise(e) == [exc |-> e, returned |-> FALSE, value |-> <<>>]

----------------------------------------------------------------------------
(* XML elements and their text *)

Absent == [present |-> FALSE, empty |-> TRUE, chars |-> <<>>]
Empty == [present |-> TRUE, empty |-> TRUE, chars |-> <<>>]
Txt(s) == [present |-> TRUE, empty |-> FALSE, chars |-> s]

\* A wrapper element (HeartRateBpm and the like) holding a Value child.
NoWrapper == [present |-> FALSE, Value |-> Absent]
Wrapper(v) == [present |-> TRUE, Value |-> v]

----------------------------------------------------------------------------
(* int(str) and float(str).  A text is a sequence of Unicode code points. *)

\* Py_ISSPACE: tab, newline, vertical tab, form feed, carriage return, space
AsciiSpace == (9..13) \cup {32}

\* The code points from 128 up for which Py_UNICODE_ISSPACE holds
UnicodeSpace == {133, 160, 5760} \cup (8192..8202) \cup {8232, 8233, 8239, 8287, 12288}

\* The digit zero of every block of decimal digits (Unicode 14.0); the other
\* nine digits of a block follow its zero.
DigitZeros ==
    {48, 1632, 1776, 1984, 2406, 2534, 2662, 2790, 2918, 3046, 3174, 3302, 3430,
     3558, 3664, 3792, 3872, 4160, 4240, 6112, 6160, 6470, 6608, 6784, 6800, 6992,
     7088, 7232, 7248, 42528, 43216, 43264, 43472, 43504, 43600, 44016, 65296,
     66720, 68912, 69734, 69872, 69942, 70096, 70384, 70736, 70864, 71248, 71360,
     71472, 71904, 72016, 72784, 73040, 73120, 92768, 92864, 93008, 120782,
     120792, 120802, 120812, 120822, 123200, 123632, 125264, 130032}

\* Py_UNICODE_TODECIMAL: the value of a decimal digit, -1 for any other character
ToDecimal(c) ==
    IF \E z \in DigitZeros : c \in z..(z + 9)
    THEN c - (CHOOSE z \in DigitZeros : c \in z..(z + 9))
    ELSE -1

\* What _PyUnicode_TransformDecimalAndSpaceToASCII makes of one character:
\* ASCII stays, a space becomes ' ', a decimal digit its ASCII digit, any
\* other character '?'.
TransformChar(c) ==
    IF c < 128 THEN c
    ELSE IF c \in UnicodeSpace THEN 32
    ELSE IF ToDecimal(c) >= 0 THEN 48 + ToDecimal(c)
    ELSE 63

TransformDecimalAndSpaceToASCII(s) == [i \in 1..Len(s) |-> TransformChar(s[i])]

\* s from its first character not among the skipped, and up to its last
SkipLeading(s, skipped) ==
    IF \A i \in 1..Len(s) : s[i] \in skipped THEN <<>>
    ELSE SubSeq(s, CHOOSE i \in 1..Len(s) :
                       s[i] \notin skipped /\ \A j \in 1..(i - 1) : s[j] \in skipped,
                Len(s))

SkipTrailing(s, skipped) ==
    IF \A i \in 1..Len(s) : s[i] \in skipped THEN <<>>
    ELSE SubSeq(s, 1, CHOOSE i \in 1..Len(s) :
                          s[i] \notin skipped /\ \A j \in (i + 1)..Len(s) : s[j] \in skipped)

NoLeadingZeros(s) == SkipLeading(s, {48})

NoTrailingZeros(s) == SkipTrailing(s, {48})

\* The numeral int() and float() parse: the text made ASCII, the Py_ISSPACE
\* characters at its two ends skipped.
Numeral(s) ==
    SkipTrailing(SkipLeading(TransformDecimalAndSpaceToASCII(s), AsciiSpace), AsciiSpace)

Digit == 48..57

\* A numeral's sign (a leading '+' or '-') and what follows it.
Sign(s) == IF s # <<>> /\ s[1] = 45 THEN -1 ELSE 1
Unsigned(s) == IF s # <<>> /\ s[1] \in {43, 45} THEN Tail(s) ELSE s

\* Digits, with single underscores (95) allowed between two digits.
DigitsWithUnderscores(s) ==
    /\ s # <<>>
    /\ \A i \in 1..Len(s) : s[i] \in Digit \cup {95}
    /\ s[1] \in Digit /\ s[Len(s)] \in Digit
    /\ \A i \in 1..(Len(s) - 1) : s[i] # 95 \/ s[i + 1] # 95

\* The digits of s, its underscores dropped.
DigitsOf(s) == SelectSeq(s, LAMBDA c : c \in Digit)

RECURSIVE DigitsVal(_)
DigitsVal(s) ==
    IF s = <<>> THEN 0 ELSE 10 * DigitsVal(SubSeq(s, 1, Len(s) - 1)) + (s[Len(s)] - 48)

\* An integer literal by its sign and what follows the sign.
IntLiteral(sign, digits) ==
    IF DigitsWithUnderscores(digits)
    THEN Return(PyInt(sign * DigitsVal(NoLeadingZeros(DigitsOf(digits)))))
    ELSE Raise("ValueError")

\* int(elem.text): None is a TypeError, a text that is no integer literal
\* (white space, sign, digits, white space) a ValueError.
int(t) ==
    IF t.empty THEN Raise("TypeError")
    ELSE IntLiteral(Sign(Numeral(t.chars)), Unsigned(Numeral(t.chars)))

AsciiLower(s) == [i \in 1..Len(s) |-> IF s[i] \in 65..90 THEN s[i] + 32 ELSE s[i]]

\* "inf", "infinity" and "nan", which float() takes in any case
Infinities == {<<105, 110, 102>>, <<105, 110, 102, 105, 110, 105, 116, 121>>}
NotANumber == <<110, 97, 110>>

\* The text before the first of the marks, from it, and after it.
Marks(s, marks) == {i \in 1..Len(s) : s[i] \in marks}
Before(s, marks) ==
    IF Marks(s, marks) = {} THEN s ELSE SubSeq(s, 1, Min(Marks(s, marks)) - 1)
From(s, marks) ==
    IF Marks(s, marks) = {} THEN <<>> ELSE SubSeq(s, Min(Marks(s, marks)), Len(s))
After(s, marks) == IF From(s, marks) = <<>> THEN <<>> ELSE Tail(From(s, marks))

\* The value of a run of exponent digits, its leading zeros gone: exact up to
\* nine digits, and 1100000000 for every longer run.
Capped(digits) == IF Len(digits) > 9 THEN 1100000000 ELSE DigitsVal(digits)

\* The value of the exponent part ('e', sign, digits) of a literal.
ExponentVal(ex) ==
    IF ex = <<>> THEN 0
    ELSE Sign(Tail(ex)) * Capped(NoLeadingZeros(DigitsOf(Tail(ex))))

(* Natural numbers of any size, for the rounding of a decimal to a double: a
   number is the sequence of its digits to the base 10^9, the least
   significant first, the most significant not zero; zero is <<>>. *)

\* a without the zeros at its most significant end
Trimmed(a) == SkipTrailing(a, {0})

\* The number a run of decimal digits writes
Limbs(digits) ==
    Trimmed([i \in 1..((Len(digits) + 8) \div 9) |->
                DigitsVal(SubSeq(digits,
                                 IF Len(digits) - 9 * i + 1 < 1 THEN 1
                                 ELSE Len(digits) - 9 * i + 1,
                                 Len(digits) - 9 * (i - 1)))])

\* a < b
Less(a, b) ==
    IF Len(a) # Len(b) THEN Len(a) < Len(b)
    ELSE \E i \in 1..Len(a) : a[i] < b[i] /\ \A j \in (i + 1)..Len(a) : a[j] = b[j]

\* 2 a: a digit of 5 * 10^8 or more carries one into the next
Double(a) ==
    Trimmed([i \in 1..(Len(a) + 1) |->
                (IF i <= Len(a) THEN (2 * a[i]) % 1000000000 ELSE 0)
                    + (IF i > 1 /\ a[i - 1] >= 500000000 THEN 1 ELSE 0)])

\* a - b for a >= b: a digit borrows when what is below it of a is less than
\* what is below it of b
Minus(a, b) ==
    LET sub(i) == IF i <= Len(b) THEN b[i] ELSE 0
        borrow(i) == IF \E j \in 1..(i - 1) :
                            a[j] < sub(j) /\ \A m \in (j + 1)..(i - 1) : a[m] = sub(m)
                     THEN 1 ELSE 0
    IN  Trimmed([i \in 1..Len(a) |-> (a[i] - sub(i) - borrow(i) + 1000000000) % 1000000000])

\* a * 2^k; a itself for k <= 0
RECURSIVE TimesTwo(_, _)
TimesTwo(a, k) ==
    IF k <= 0 \/ a = <<>> THEN a
    ELSE IF k = 1 THEN Double(a)
    ELSE TimesTwo(TimesTwo(a, k \div 2), k - (k \div 2))

\* The least of p, 2 p, 4 p, ... whose double is more than n
RECURSIVE PowerFrom(_, _)
PowerFrom(p, n) == IF 2 * p > n THEN p ELSE PowerFrom(2 * p, n)

\* For P >= D * 2^e, both > 0: the e + k with D * 2^(e + k) <= P < D * 2^(e + k + 1),
\* looked for among the k < 2 * step (step a power of two), with D scaled so
\* that D <= P < 2 D.
RECURSIVE ScaleUp(_, _, _, _)
ScaleUp(P, D, e, step) ==
    IF step = 0 THEN [P |-> P, D |-> D, e |-> e]
    ELSE LET try(scaled) ==
                 IF Less(P, scaled) THEN ScaleUp(P, D, e, step \div 2)
                 ELSE ScaleUp(P, scaled, e + step, step \div 2)
         IN  try(TimesTwo(D, step))

\* The same for P < D * 2^e, with P scaled.
RECURSIVE ScaleDown(_, _, _, _)
ScaleDown(P, D, e, step) ==
    IF step = 0 THEN [P |-> Double(P), D |-> D, e |-> e - 1]
    ELSE LET try(scaled) ==
                 IF Less(scaled, D) THEN ScaleDown(scaled, D, e - step, step \div 2)
                 ELSE ScaleDown(P, D, e, step \div 2)
         IN  try(TimesTwo(P, step))

\* The quotient P / D (both > 0, the quotient from 2^-range up to 2^range)
\* brought between 1 and 2: the e with D * 2^e <= P < D * 2^(e + 1), and P and D
\* scaled so that D <= P < 2 D.
Scale(P, D, range) ==
    IF Less(P, D) THEN ScaleDown(P, D, 0, PowerFrom(1, range))
    ELSE ScaleUp(P, D, 0, PowerFrom(1, range))

\* The first n binary digits of R / D (R < 2 D), the first of them the units
\* digit, and what is left: rem / D < 2 is the rest of the quotient in units of
\* the place after the last digit taken.  Digits past an exact quotient are
\* not written.
RECURSIVE Quotient(_, _, _)
Quotient(R, D, n) ==
    IF n <= 0 \/ R = <<>> THEN [bits |-> <<>>, rem |-> R]
    ELSE IF n = 1
    THEN (IF Less(R, D) THEN [bits |-> <<0>>, rem |-> Double(R)]
          ELSE [bits |-> <<1>>, rem |-> Double(Minus(R, D))])
    ELSE LET both(first, rest) == [bits |-> first.bits \o rest.bits, rem |-> rest.rem]
             after(first) == both(first, Quotient(first.rem, D, n - (n \div 2)))
         IN  after(Quotient(R, D, n \div 2))

\* Round-half-even: up when the rest is more than half a unit in the last
\* place, or is the half and the last digit is odd.
RoundsUp(q, D) ==
    \/ Less(D, q.rem)
    \/ q.rem = D /\ q.bits # <<>> /\ q.bits[Len(q.bits)] = 1

\* bits + 1 in the last place; a carry out of the first place adds a digit
Increment(bits) ==
    IF \A i \in 1..Len(bits) : bits[i] = 1
    THEN <<1>> \o [i \in 1..Len(bits) |-> 0]
    ELSE [i \in 1..Len(bits) |->
             IF \E j \in (i + 1)..Len(bits) : bits[j] = 0 THEN bits[i]
             ELSE 1 - bits[i]]

\* The float of the rounded digits; a carry moved the first digit one place
\* up.  Past the exponent of the largest double it is infinity.
Finish(sign, e, taken, rounded) ==
    IF SkipTrailing(rounded, {0}) = <<>> THEN Float(sign, <<>>, 0)
    ELSE IF e + Len(rounded) - Len(taken) > 1023 THEN PyInf(sign)
    ELSE Float(sign, SkipTrailing(rounded, {0}), e + Len(rounded) - Len(taken))

\* The quotient q of s.P / s.D rounded in its last place
RoundTo(sign, s, q) ==
    Finish(sign, s.e, q.bits, IF RoundsUp(q, s.D) THEN Increment(q.bits) ELSE q.bits)

\* sign * P / D rounded to a multiple of 2^unit
Nearest(sign, s, unit) ==
    IF s.e + 1 < unit THEN Float(sign, <<>>, 0)
    ELSE RoundTo(sign, s, Quotient(s.P, s.D, s.e + 1 - unit))

\* The place of the last binary digit of a double whose first is at 2^e: 53
\* digits, but none below 2^-1074 (the subnormal doubles have fewer digits).
Ulp(e) == IF e - 52 < -1074 THEN -1074 ELSE e - 52

\* The double nearest to sign * P / D (round-half-even, as strtod rounds)
NearestDouble(sign, s) == Nearest(sign, s, Ulp(s.e))

\* k zeros, none for k <= 0
Zeros(k) == [i \in 1..(IF k > 0 THEN k ELSE 0) |-> 48]

\* The double nearest to 0.digits * 10^mag (digits without zeros at either
\* end): +-0.0 when there is no digit or the value is not above half the
\* smallest double (2^-1075), +-inf from 2^1024 - 2^970 on, half-way from the
\* largest double to 2^1024.  The value lies from 10^(mag - 1) up to 10^mag,
\* and 10 < 2^(10/3).
Rounded(sign, digits, mag) ==
    IF digits = <<>> \/ mag < -330 THEN Float(sign, <<>>, 0)
    ELSE IF mag > 310 THEN PyInf(sign)
    ELSE NearestDouble(sign, Scale(Limbs(digits \o Zeros(mag - Len(digits))),
                                   Limbs(<<49>> \o Zeros(Len(digits) - mag)),
                                   1 + (10 * (IF mag > 0 THEN mag ELSE 1 - mag)) \div 3))

\* The value of a decimal literal of integer digits ip, fraction digits fp and
\* exponent x.
DecimalVal(sign, ip, fp, x) ==
    Rounded(sign, NoTrailingZeros(NoLeadingZeros(ip \o fp)),
            Len(NoLeadingZeros(ip \o fp)) - Len(fp) + x)

\* A decimal literal by its parts: digits [. digits] with a digit on one side
\* of the point at least, then nothing or 'e', a sign and digits.
DecimalLiteral(sign, ip, fp, ex) ==
    IF /\ ip = <<>> \/ DigitsWithUnderscores(ip)
       /\ fp = <<>> \/ DigitsWithUnderscores(fp)
       /\ ip # <<>> \/ fp # <<>>
       /\ ex = <<>> \/ DigitsWithUnderscores(Unsigned(Tail(ex)))
    THEN Return(DecimalVal(sign, DigitsOf(ip), DigitsOf(fp), ExponentVal(ex)))
    ELSE Raise("ValueError")

\* A float literal by its sign and what follows the sign: the mantissa ends at
\* the first 'e' or 'E', its integer digits at the first '.'.
FloatLiteral(sign, s) ==
    IF AsciiLower(s) = NotANumber THEN Return(NaN)
    ELSE IF AsciiLower(s) \in Infinities THEN Return(PyInf(sign))
    ELSE DecimalLiteral(sign, Before(Before(s, {69, 101}), {46}),
                        After(Before(s, {69, 101}), {46}), From(s, {69, 101}))

\* float(elem.text): None is a TypeError, a text that is no float literal a
\* ValueError.
float(t) ==
    IF t.empty THEN Raise("TypeError")
    ELSE FloatLiteral(Sign(Numeral(t.chars)), Unsigned(Numeral(t.chars)))

\* The decimal digits of a natural number
RECURSIVE IntDigits(_)
IntDigits(n) == IF n < 10 THEN <<48 + n>> ELSE IntDigits(n \div 10) \o <<48 + (n % 10)>>

\* The float nearest to m * 10^(-e): float(m) for e = 0
PyFloat(m, e) ==
    DecimalVal(IF m < 0 THEN -1 ELSE 1, IntDigits(IF m < 0 THEN -m ELSE m), <<>>, -e)

\* A timestamp text, and the StartTime attribute of a lap.  A timestamp here is
\* well formed: a date and time with a UTC offset ('Z', '+01:00'), which lines
\* 30 to 32 and the parse of line 48 take without raising.  Texts that are no
\* date, or carry no offset, are outside the model.
Stamp(wall, utcoff) == [present |-> TRUE, wall |-> wall, utcoff |-> utcoff]
NoStamp == [present |-> FALSE, wall |-> 0, utcoff |-> 0]

\* pd.to_datetime(str): the instant the offset-bearing text denotes (ms, UTC)
to_datetime(s) == s.wall - s.utcoff

\* The instant read on the local zone's wall clock, its zone dropped.
convert_local(s) == PyTime(to_datetime(s) + tz)

----------------------------------------------------------------------------
(* get_tcx_lap_data *)

\* data[key] = conv(...) at one "if elem is not None" site: the call so far
\* (r) goes on only if it has not raised; an absent element adds no key.
Store(r, key, elem, conv) ==
    IF ~r.returned \/ ~elem.present THEN r
    ELSE IF conv.returned THEN Return(r.value @@ (key :> conv.value))
    ELSE conv

\* elem.find('ns:Value').text of a wrapper: .text of None is an AttributeError
ValueOf(w, conv) ==
    IF ~w.Value.present THEN Raise("AttributeError") ELSE conv

LapStart(l) ==
    IF ~l.StartTime.present THEN Raise("KeyError")
    ELSE Return("start_time" :> convert_local(l.StartTime))

get_tcx_lap_data_nulls(l) ==
    LET fill(r, key, elem, conv) ==
            IF ~r.returned THEN r
            ELSE IF ~elem.present THEN Return(r.value @@ (key :> NaN))
            ELSE IF conv.returned THEN Return(r.value @@ (key :> conv.value))
            ELSE conv
        d1 == fill(LapStart(l), "distance", l.DistanceMeters, float(l.DistanceMeters))
        d2 == fill(d1, "calories", l.Calories, int(l.Calories))
        d3 == fill(d2, "total_time", l.TotalTimeSeconds, float(l.TotalTimeSeconds))
        d4 == fill(d3, "max_speed", l.MaximumSpeed, float(l.MaximumSpeed))
        d5 == fill(d4, "max_hr", l.MaximumHeartRateBpm,
                   ValueOf(l.MaximumHeartRateBpm, float(l.MaximumHeartRateBpm.Value)))
    IN  fill(d5, "avg_hr", l.AverageHeartRateBpm,
             ValueOf(l.AverageHeartRateBpm, float(l.AverageHeartRateBpm.Value)))

get_tcx_lap_data(l) ==
    LET d1 == Store(LapStart(l), "distance", l.DistanceMeters, float(l.DistanceMeters))
        d2 == Store(d1, "calories", l.Calories, int(l.Calories))
        d3 == Store(d2, "total_time", l.TotalTimeSeconds, float(l.TotalTimeSeconds))
        d4 == Store(d3, "max_speed", l.MaximumSpeed, float(l.MaximumSpeed))
        d5 == Store(d4, "max_hr", l.MaximumHeartRateBpm,
                    ValueOf(l.MaximumHeartRateBpm, float(l.MaximumHeartRateBpm.Value)))
    IN  Store(d5, "avg_hr", l.AverageHeartRateBpm,
              ValueOf(l.AverageHeartRateBpm, float(l.AverageHeartRateBpm.Value)))

----------------------------------------------------------------------------
(* get_tcx_trackpoint_data *)

\* trackpoint.find('ns:Time').text: .text of None is an AttributeError
PointTime(p) ==
    IF ~p.Time.present THEN Raise("AttributeError")
    ELSE Return("time" :> convert_local(p.Time))

\* A text that Python's "or" takes for true: neither None nor ''.
Truthy(t) == ~t.empty /\ t.chars # <<>>

\* float(watt_elem.text or 0)
WattOf(t) == IF Truthy(t) THEN float(t) ELSE Return(PyFloat(0, 0))

get_tcx_trackpoint_data_untimed(p) ==
    LET d0 == IF p.Time.present THEN PointTime(p) ELSE Return(<<>>)
        d1 == Store(d0, "cadence", p.Cadence, float(p.Cadence))
        d2 == Store(d1, "distance", p.DistanceMeters, float(p.DistanceMeters))
        d3 == Store(d2, "heart_rate", p.HeartRateBpm,
                    ValueOf(p.HeartRateBpm, int(p.HeartRateBpm.Value)))
    IN  Store(d3, "watt", p.Watts, WattOf(p.Watts))

get_tcx_trackpoint_data(p) ==
    LET d1 == Store(PointTime(p), "cadence", p.Cadence, float(p.Cadence))
        d2 == Store(d1, "distance", p.DistanceMeters, float(p.DistanceMeters))
        d3 == Store(d2, "heart_rate", p.HeartRateBpm,
                    ValueOf(p.HeartRateBpm, int(p.HeartRateBpm.Value)))
    IN  Store(d3, "watt", p.Watts, WattOf(p.Watts))

----------------------------------------------------------------------------
(* get_dataframes *)

LAPS_COLUMN_NAMES ==
    <<"number", "start_time", "distance", "calories", "total_time", "max_speed",
      "max_hr", "avg_hr">>

TRACKPOINT_COLUMN_NAMES == <<"time", "distance", "heart_rate", "watt", "cadence">>

Range(s) == {s[i] : i \in 1..Len(s)}

\* The dtype of a column of numbers: int64 when every value is an int, float64
\* as soon as one is a float or missing (NaN), and then its ints are the
\* floats of the same value.
HoldsFloat(df, c) == \E i \in 1..Len(df) : df[i].cells[c].k \in {"nan", "float", "inf"}

Upcast(df) ==
    [i \in 1..Len(df) |->
        [index |-> df[i].index,
         cells |-> [c \in DOMAIN df[i].cells |->
                      IF df[i].cells[c].k = "int" /\ HoldsFloat(df, c)
                      THEN PyFloat(df[i].cells[c].v, 0)
                      ELSE df[i].cells[c]]]]

\* pd.DataFrame(rows, columns=cols): one row per dict under the labels 0, 1, ...
\* of a RangeIndex, holding the named columns only, NaN where the dict has no
\* such key.
DataFrame(rows, cols) ==
    Upcast([i \in 1..Len(rows) |->
               [index |-> PyInt(i - 1),
                cells |-> [c \in Range(cols) |->
                             IF c \in DOMAIN rows[i] THEN rows[i][c] ELSE NaN]]])

\* df.set_index(col, inplace=True): the column's values become the index labels
\* and the column is a column no longer.
set_index(df, col) ==
    [i \in 1..Len(df) |->
        [index |-> df[i].cells[col],
         cells |-> [c \in DOMAIN df[i].cells \ {col} |-> df[i].cells[c]]]]

\* The loop over the trackpoints of one lap's Track (lines 125 to 130).
RECURSIVE TrackLoop(_, _)
TrackLoop(points, lap_no) ==
    IF points = <<>> THEN Return(<<>>)
    ELSE LET turn(single_point_data, rest) ==
                 IF ~single_point_data.returned THEN single_point_data
                 ELSE IF ~rest.returned THEN rest
                 ELSE IF DOMAIN single_point_data.value # {}
                 THEN Return(<<single_point_data.value @@ ("lap" :> PyInt(lap_no))>>
                                \o rest.value)
                 ELSE Return(rest.value)
         IN  turn(get_tcx_trackpoint_data(Head(points)), TrackLoop(Tail(points), lap_no))

\* The loop over the laps of the activity (lines 116 to 131); returns the two
\* lists laps_data and points_data.
RECURSIVE LapLoop(_, _)
LapLoop(laps, lap_no) ==
    IF laps = <<>> THEN Return([laps_data |-> <<>>, points_data |-> <<>>])
    ELSE LET turn(single_lap_data, track, points, rest) ==
                 IF ~single_lap_data.returned THEN single_lap_data
                 ELSE IF ~track.present THEN Raise("AttributeError")
                 ELSE IF ~points.returned THEN points
                 ELSE IF ~rest.returned THEN rest
                 ELSE Return([laps_data |->
                                  <<single_lap_data.value @@ ("number" :> PyInt(lap_no))>>
                                      \o rest.value.laps_data,
                              points_data |-> points.value \o rest.value.points_data])
         IN  turn(get_tcx_lap_data(Head(laps)), Head(laps).Track,
                  TrackLoop(Head(laps).Track.Trackpoint, lap_no),
                  LapLoop(Tail(laps), lap_no + 1))

LastActivity(r) ==
    IF ~r.Activities.present THEN Raise("TypeError")
    ELSE IF r.Activities.children = <<>> THEN Raise("IndexError")
    ELSE Return(r.Activities.children[Len(r.Activities.children)])

\* root.find('ns:Activities', NAMESPACES)[0]: subscripting None is a TypeError,
\* an Activities element without children an IndexError.
FirstActivity(r) ==
    IF ~r.Activities.present THEN Raise("TypeError")
    ELSE IF r.Activities.children = <<>> THEN Raise("IndexError")
    ELSE Return(r.Activities.children[1])

get_dataframes(r) ==
    LET frames(lists) ==
            IF ~lists.returned THEN lists
            ELSE Return([laps_df |->
                             set_index(DataFrame(lists.value.laps_data, LAPS_COLUMN_NAMES),
                                       "number"),
                         points_df |->
                             DataFrame(lists.value.points_data, TRACKPOINT_COLUMN_NAMES)])
        walk(activity) ==
            IF ~activity.returned THEN activity ELSE frames(LapLoop(activity.value.Lap, 1))
    IN  walk(FirstActivity(r))

----------------------------------------------------------------------------
(* Inputs *)

HMS(h, m, s) == ((h * 60 + m) * 60 + s) * 1000

\* Local zones the run may execute in: UTC and UTC+1.
LocalZones == {0, HMS(1, 0, 0)}

\* Element texts: none, ' ', '12', '1000.0' on a line of its own as pretty-printed
\* XML has it ('\n1000.0\n'), '-1_0e2' and 'x'.
Texts == {Empty, Txt(<<32>>), Txt(<<49, 50>>),
          Txt(<<10, 49, 48, 48, 48, 46, 48, 10>>),
          Txt(<<45, 49, 95, 48, 101, 50>>), Txt(<<120>>)}

ElemOpts == {Absent} \cup Texts

WrapperOpts == {NoWrapper, Wrapper(Absent)} \cup {Wrapper(t) : t \in Texts}

\* 14:00:00 written with offset Z and the same instant written with +01:00
Stamps == {Stamp(HMS(14, 0, 0), 0), Stamp(HMS(15, 0, 0), HMS(1, 0, 0))}

NoTrack == [present |-> FALSE, Trackpoint |-> <<>>]
Track(points) == [present |-> TRUE, Trackpoint |-> points]

LapNodes ==
    [StartTime : {NoStamp, Stamp(HMS(14, 0, 0), 0)}, DistanceMeters : ElemOpts,
     Calories : ElemOpts, TotalTimeSeconds : ElemOpts, MaximumSpeed : ElemOpts,
     MaximumHeartRateBpm : WrapperOpts, AverageHeartRateBpm : WrapperOpts,
     Track : {NoTrack}]

TrackpointNodes ==
    [Time : {NoStamp} \cup Stamps, Cadence : ElemOpts, DistanceMeters : ElemOpts,
     HeartRateBpm : WrapperOpts, Watts : ElemOpts]

Idle == [idle |-> TRUE]

\* A name the script has not assigned yet: reading it is a NameError.
Unbound == [k |-> "unbound"]

\* The same for a name that is to hold a frame (a sequence of rows).
NoFrame == <<Unbound>>

ScriptIdle ==
    /\ fpath = <<>> /\ pc = "idle" /\ seen = 0 /\ exc = "none"
    /\ laps_df_concept2 = <<>> /\ points_df_concept2 = <<>>
    /\ laps_df_garmin = NoFrame /\ points_df_garmin = NoFrame
    /\ total_seconds = Unbound /\ merged_dataframe = NoFrame

----------------------------------------------------------------------------
(* get_tcx_lap_data applied to one lap node, called as the script calls it:
   with the module's log bound (line 147), so that line 48 logs *)

InitLap ==
    /\ tz \in LocalZones
    /\ lap \in LapNodes
    /\ lap_data = NotCalled
    /\ trackpoint = Idle /\ point_data = NotCalled
    /\ root = Idle /\ dataframes = NotCalled
    /\ ScriptIdle

ExtractLap ==
    /\ lap_data = NotCalled
    /\ lap_data' = get_tcx_lap_data(lap)
    /\ UNCHANGED <<tz, lap, trackpoint, point_data, root, dataframes, script>>

NextLap == ExtractLap

SpecLap == InitLap /\ [][NextLap]_vars

----------------------------------------------------------------------------
(* get_tcx_trackpoint_data applied to one trackpoint node, called as the
   script calls it (log bound, line 147) *)

InitPoint ==
    /\ tz \in LocalZones
    /\ trackpoint \in TrackpointNodes
    /\ point_data = NotCalled
    /\ lap = Idle /\ lap_data = NotCalled
    /\ root = Idle /\ dataframes = NotCalled
    /\ ScriptIdle

ExtractPoint ==
    /\ point_data = NotCalled
    /\ point_data' = get_tcx_trackpoint_data(trackpoint)
    /\ UNCHANGED <<tz, lap, lap_data, trackpoint, root, dataframes, script>>

NextPoint == ExtractPoint

SpecPoint == InitPoint /\ [][NextPoint]_vars

----------------------------------------------------------------------------
(* get_dataframes applied to one document, called as the script calls it
   (log bound, line 147) *)

MaxLaps == 2
MaxPoints == 1

SeqsUpTo(S, n) == UNION {[1..k -> S] : k \in 0..n}

PlainLap(start, track) ==
    [StartTime |-> start, DistanceMeters |-> Absent, Calories |-> Absent,
     TotalTimeSeconds |-> Absent, MaximumSpeed |-> Absent,
     MaximumHeartRateBpm |-> NoWrapper, AverageHeartRateBpm |-> NoWrapper,
     Track |-> track]

PlainPoint(time, hr, watts) ==
    [Time |-> time, Cadence |-> Absent, DistanceMeters |-> Absent,
     HeartRateBpm |-> hr, Watts |-> watts]

\* Trackpoints of the documents walked: a sample with a heart rate of '98' and
\* an empty Watts element, and one without a Time child.
WalkPoints ==
    {PlainPoint(Stamp(HMS(14, 0, 1), 0), Wrapper(Txt(<<57, 56>>)), Empty),
     PlainPoint(NoStamp, NoWrapper, Absent)}

WalkTracks == {NoTrack} \cup {Track(ps) : ps \in SeqsUpTo(WalkPoints, MaxPoints)}

WalkLaps ==
    {PlainLap(Stamp(HMS(14, 0, 0), 0), t) : t \in WalkTracks}
        \cup {[PlainLap(Stamp(HMS(14, 5, 0), 0), t) EXCEPT !.Calories = Txt(<<49, 50>>)] :
                t \in WalkTracks}

Activity(laps) == [Lap |-> laps]

WalkActivities == {Activity(ls) : ls \in SeqsUpTo(WalkLaps, MaxLaps)}

\* What may follow the first activity in the Activities element.
LaterActivities == {Activity(ls) : ls \in SeqsUpTo(WalkLaps, 1)}

NoActivities == [Activities |-> [present |-> FALSE, children |-> <<>>]]
Document(acts) == [Activities |-> [present |-> TRUE, children |-> acts]]

Roots ==
    {NoActivities, Document(<<>>)}
        \cup {Document(<<a>>) : a \in WalkActivities}
        \cup {Document(<<a, b>>) : a \in WalkActivities, b \in LaterActivities}

InitWalk ==
    /\ tz \in LocalZones
    /\ root \in Roots
    /\ dataframes = NotCalled
    /\ lap = Idle /\ lap_data = NotCalled
    /\ trackpoint = Idle /\ point_data = NotCalled
    /\ ScriptIdle

Walk ==
    /\ dataframes = NotCalled
    /\ dataframes' = get_dataframes(root)
    /\ UNCHANGED <<tz, lap, lap_data, trackpoint, point_data, root, script>>

NextWalk == Walk

SpecWalk == InitWalk /\ [][NextWalk]_vars

----------------------------------------------------------------------------
(* Properties of the field extractors *)

\* The optional child elements of a lap node and the keys they are stored under.
LapPresentKeys(l) ==
    {"start_time"}
        \cup (IF l.DistanceMeters.present THEN {"distance"} ELSE {})
        \cup (IF l.Calories.present THEN {"calories"} ELSE {})
        \cup (IF l.TotalTimeSeconds.present THEN {"total_time"} ELSE {})
        \cup (IF l.MaximumSpeed.present THEN {"max_speed"} ELSE {})
        \cup (IF l.MaximumHeartRateBpm.present THEN {"max_hr"} ELSE {})
        \cup (IF l.AverageHeartRateBpm.present THEN {"avg_hr"} ELSE {})

\* The element holds a text float() takes, and one int() takes.
IsFloatText(e) == float(e).returned
IsIntText(e) == int(e).returned

\* Every element the lap node has carries text of its declared type.
LapCoercible(l) ==
    /\ l.DistanceMeters.present => IsFloatText(l.DistanceMeters)
    /\ l.Calories.present => IsIntText(l.Calories)
    /\ l.TotalTimeSeconds.present => IsFloatText(l.TotalTimeSeconds)
    /\ l.MaximumSpeed.present => IsFloatText(l.MaximumSpeed)
    /\ \A w \in {l.MaximumHeartRateBpm, l.AverageHeartRateBpm} :
          w.present => w.Value.present /\ IsFloatText(w.Value)

\* C3: for a lap node with a StartTime attribute (a well-formed timestamp with
\* its offset) and any subset of the optional child elements (each holding text
\* of its type), get_tcx_lap_data returns a mapping whose keys are exactly
\* start_time and the keys of the elements present; whenever it returns at all,
\* an absent element has produced no key.
C3_LapKeysExactlyPresent ==
    lap_data # NotCalled =>
        /\ (lap.StartTime.present /\ LapCoercible(lap)) =>
              lap_data.returned /\ DOMAIN lap_data.value = LapPresentKeys(lap)
        /\ lap_data.returned => DOMAIN lap_data.value = LapPresentKeys(lap)

\* A lap with a distance of '\n1000.0\n' and no Calories element has been
\* extracted: distance is 1000.0, calories is no key, start_time is the local
\* reading.
C3_Witness ==
    /\ lap_data.returned
    /\ lap.DistanceMeters = Txt(<<10, 49, 48, 48, 48, 46, 48, 10>>)
    /\ ~lap.Calories.present
    /\ lap.MaximumHeartRateBpm.present
    /\ DOMAIN lap_data.value = {"start_time", "distance", "max_hr"}
    /\ lap_data.value["distance"] = PyFloat(1000, 0)
    /\ lap_data.value["start_time"] = PyTime(HMS(14, 0, 0) + tz)

\* C4: a trackpoint node without a Time child makes get_tcx_trackpoint_data
\* raise and return no mapping, whatever its other child elements are.  The
\* exception is the one line 81 raises, the AttributeError of reading .text of
\* the element not found: the source defines no error class of its own.
C4_NoTimeRaises ==
    (point_data # NotCalled /\ ~trackpoint.Time.present) =>
        /\ ~point_data.returned
        /\ point_data.exc = "AttributeError"
        /\ point_data.value = <<>>

\* A trackpoint without Time but with a heart rate and a Watts element raised.
C4_Witness ==
    /\ ~trackpoint.Time.present
    /\ trackpoint.HeartRateBpm = Wrapper(Txt(<<49, 50>>))
    /\ trackpoint.Watts = Txt(<<49, 50>>)
    /\ point_data = Raise("AttributeError")

\* An element whose text is empty or white space only (str.isspace).
IsBlank(e) ==
    /\ e.present
    /\ e.empty \/ \A i \in 1..Len(e.chars) :
                     e.chars[i] \in AsciiSpace \cup (28..31) \cup UnicodeSpace

\* The elements of a trackpoint other than Watts would not make the call fail.
PointOthersCoercible(p) ==
    /\ p.Time.present
    /\ p.Cadence.present => IsFloatText(p.Cadence)
    /\ p.DistanceMeters.present => IsFloatText(p.DistanceMeters)
    /\ p.HeartRateBpm.present =>
          p.HeartRateBpm.Value.present /\ IsIntText(p.HeartRateBpm.Value)

\* C5: a trackpoint with a Time child (a well-formed timestamp with its offset)
\* and a Watts element whose text is empty or only whitespace is extracted with
\* watt = 0.0; without a Watts element the result has no watt key.
C5_BlankWattsIsZero ==
    (point_data # NotCalled /\ PointOthersCoercible(trackpoint)) =>
        /\ IsBlank(trackpoint.Watts) =>
              /\ point_data.returned
              /\ "watt" \in DOMAIN point_data.value
              /\ point_data.value["watt"] = PyFloat(0, 0)
        /\ ~trackpoint.Watts.present =>
              point_data.returned /\ "watt" \notin DOMAIN point_data.value

----------------------------------------------------------------------------
(* Properties of the document walker *)

\* The lap numbers a walk of the activity's laps is to stamp on its trackpoints,
\* in document order: the 1-based position of each point's enclosing lap.
RECURSIVE EnclosingLaps(_, _)
EnclosingLaps(laps, lap_no) ==
    IF laps = <<>> THEN <<>>
    ELSE [i \in 1..Len(Head(laps).Track.Trackpoint) |-> lap_no]
            \o EnclosingLaps(Tail(laps), lap_no + 1)

\* C2: every trackpoint record of the trackpoint table get_dataframes returns
\* carries a lap value, the 1-based document position of its enclosing lap, and
\* that value is the number of a lap record of the lap table, whose numbers are
\* exactly 1..N.
C2_PointsCarryLapNumber ==
    dataframes.returned =>
        LET laps == root.Activities.children[1].Lap
            laps_df == dataframes.value.laps_df
            points_df == dataframes.value.points_df
        IN  /\ Len(laps_df) = Len(laps)
            /\ \A i \in 1..Len(laps_df) : laps_df[i].index = PyInt(i)
            /\ Len(points_df) = Len(EnclosingLaps(laps, 1))
            /\ \A j \in 1..Len(points_df) :
                  /\ "lap" \in DOMAIN points_df[j].cells
                  /\ points_df[j].cells["lap"] = PyInt(EnclosingLaps(laps, 1)[j])
                  /\ \E i \in 1..Len(laps_df) : laps_df[i].index = points_df[j].cells["lap"]

\* The document with every activity after the first removed.
FirstOnly(r) == Document(<<r.Activities.children[1]>>)

\* C9: get_dataframes raises when the document has no activities (TypeError
\* when the Activities element is missing, IndexError when it has no child);
\* otherwise what it produces is what the first activity alone produces.
C9_FirstActivityOnly ==
    dataframes # NotCalled =>
        /\ ~root.Activities.present => dataframes = Raise("TypeError")
        /\ (root.Activities.present /\ root.Activities.children = <<>>) =>
              dataframes = Raise("IndexError")
        /\ (root.Activities.present /\ root.Activities.children # <<>>) =>
              /\ dataframes = get_dataframes(FirstOnly(root))
              /\ dataframes.returned =>
                    Len(dataframes.value.laps_df) = Len(root.Activities.children[1].Lap)

\* A document of two activities of different lap counts was walked, and the
\* tables hold the laps of the first.
C9_Witness ==
    /\ dataframes.returned
    /\ Len(root.Activities.children) = 2
    /\ Len(root.Activities.children[1].Lap) = 2
    /\ Len(root.Activities.children[2].Lap) = 1
    /\ Len(dataframes.value.laps_df) = 2
    /\ Len(dataframes.value.points_df) = 2

\* A document without activities was walked and the walk raised.
C9_WitnessNoActivities == dataframes = Raise("IndexError") /\ root = Document(<<>>)

----------------------------------------------------------------------------
(* The script under __main__: pandas operations *)

\* The rows of the frames, one frame after the other
RECURSIVE Concat(_)
Concat(frames) == IF frames = <<>> THEN <<>> ELSE Head(frames) \o Concat(Tail(frames))

\* pd.concat(frames): an empty list is a ValueError ("No objects to
\* concatenate"); a column that is int64 in one frame and float64 in another
\* is float64 in the result.
concat(frames) ==
    IF frames = <<>> THEN Raise("ValueError") ELSE Return(Upcast(Concat(frames)))

Without(df, i) == SubSeq(df, 1, i - 1) \o SubSeq(df, i + 1, Len(df))

\* df.sort_values(by=col, ascending=True) with the default, unstable sort:
\* every ordering of the rows that is non-decreasing in col is a possible result.
RECURSIVE sort_values(_, _)
sort_values(df, col) ==
    IF df = <<>> THEN {<<>>}
    ELSE LET least == {i \in 1..Len(df) : \A j \in 1..Len(df) : df[i].cells[col].v <= df[j].cells[col].v}
         IN  UNION {{<<df[i]>> \o rest : rest \in sort_values(Without(df, i), col)} :
                      i \in least}

is_monotonic(df, col) ==
    \A i \in 1..Len(df) : \A j \in i..Len(df) : df[i].cells[col].v <= df[j].cells[col].v

\* df[col].min(): NaN for a frame without rows
min(df, col) ==
    IF df = <<>> THEN NaN
    ELSE df[CHOOSE i \in 1..Len(df) :
                \A j \in 1..Len(df) : df[i].cells[col].v <= df[j].cells[col].v].cells[col]

difference_reversed(garmin_start, concept2_start) ==
    IF garmin_start = NaN /\ concept2_start = NaN THEN Return(NaN)
    ELSE IF garmin_start = NaN \/ concept2_start = NaN THEN Raise("TypeError")
    ELSE Return([k |-> "timedelta", v |-> concept2_start.v - garmin_start.v])

\* garmin_start - concept2_start (line 184): a Timedelta of two Timestamps, NaN
\* of two NaN, a TypeError of a Timestamp and a NaN
difference(garmin_start, concept2_start) ==
    IF garmin_start = NaN /\ concept2_start = NaN THEN Return(NaN)
    ELSE IF garmin_start = NaN \/ concept2_start = NaN THEN Raise("TypeError")
    ELSE Return([k |-> "timedelta", v |-> garmin_start.v - concept2_start.v])

\* difference.total_seconds() (line 185): the float nearest to the seconds the
\* milliseconds are; the float NaN has no such method
get_total_seconds(d) ==
    IF d = NaN THEN Raise("AttributeError") ELSE Return(PyFloat(d.v, 3))

\* The number a run of binary digits writes
RECURSIVE BitsVal(_)
BitsVal(bits) ==
    IF bits = <<>> THEN 0 ELSE 2 * BitsVal(SubSeq(bits, 1, Len(bits) - 1)) + bits[Len(bits)]

\* The same at any size, for up to 58 digits
BitsOf(bits) ==
    IF Len(bits) <= 29 THEN Trimmed(<<BitsVal(bits)>>)
    ELSE Minus(TimesTwo(<<BitsVal(SubSeq(bits, 1, Len(bits) - 29)) + 1>>, 29),
               <<536870912 - BitsVal(SubSeq(bits, Len(bits) - 28, Len(bits)))>>)

RECURSIVE Pow2(_)
Pow2(e) == IF e = 0 THEN 1 ELSE 2 * Pow2(e - 1)

\* The integer a float of integral value is
Integral(f) ==
    IF f.bits = <<>> THEN 0 ELSE f.sign * BitsVal(f.bits) * Pow2(f.exp + 1 - Len(f.bits))

\* 1000 a = 1024 a - 16 a - 8 a
Thousand(a) == Minus(Minus(TimesTwo(a, 10), TimesTwo(a, 4)), TimesTwo(a, 3))

\* timedelta(seconds=total_seconds) in milliseconds, for the float that
\* total_seconds() gave: 1000 times its value, rounded half-even to a whole
\* number (the timedelta rounds to microseconds, of which a difference of
\* timestamps in milliseconds has a multiple of 1000).
timedelta(secs) ==
    IF secs.bits = <<>> THEN 0
    ELSE Integral(Nearest(secs.sign,
                          Scale(TimesTwo(Thousand(BitsOf(secs.bits)),
                                         secs.exp + 1 - Len(secs.bits)),
                                TimesTwo(<<1>>, Len(secs.bits) - 1 - secs.exp),
                                12 + (IF secs.exp < 0 THEN -secs.exp ELSE secs.exp)),
                          0))

\* df[col] = df[col] + delta
Shifted(df, col, delta) ==
    [i \in 1..Len(df) |-> [df[i] EXCEPT !.cells[col] = PyTime(@.v + delta)]]

\* df[[...cols]]: the rows under their labels, cut down to the columns named
Columns(df, cols) ==
    [i \in 1..Len(df) |-> [df[i] EXCEPT !.cells = [c \in cols |-> df[i].cells[c]]]]

\* The heart_rate merge_asof finds for a left row of time t when the rows are
\* grouped by="time": that of the last right row of the same time, whose time
\* is then <= t; NaN when no right row has that time.
MatchBy(right, t) ==
    LET same == {j \in 1..Len(right) : right[j].cells["time"] = t}
    IN  IF same = {} THEN NaN
        ELSE right[CHOOSE j \in same : \A m \in same : m <= j].cells["heart_rate"]

merge_asof_lenient(left, right) ==
    Return([i \in 1..Len(left) |->
               [index |-> PyInt(i - 1),
                cells |-> left[i].cells
                            @@ ("heart_rate" :> MatchBy(right, left[i].cells["time"]))]])

\* pd.merge_asof(left, right, on="time", by="time") (line 200).  The time column
\* of a frame without rows has no datetime64 dtype: against a datetime64 column
\* that is a MergeError, against another object column no join function matches
\* (TypeError; see JoinErrors for the script's two frames without rows).
\* Unsorted keys are a ValueError.  The rows of the result are the left rows,
\* under the labels of a new RangeIndex.
merge_asof(left, right) ==
    IF (left = <<>>) # (right = <<>>) THEN Raise("MergeError")
    ELSE IF left = <<>> THEN Raise("TypeError")
    ELSE IF ~is_monotonic(left, "time") \/ ~is_monotonic(right, "time")
         THEN Raise("ValueError")
    ELSE Return(Upcast([i \in 1..Len(left) |->
                           [index |-> PyInt(i - 1),
                            cells |-> left[i].cells
                                        @@ ("heart_rate" :>
                                              MatchBy(right, left[i].cells["time"]))]]))

\* (merged['time'] - merged['time'].iloc[0]).dt.seconds (line 201): the seconds
\* field of the Timedelta, which counts within the day
dt_seconds(ms) == (ms \div 1000) % (24 * 60 * 60)

\* pd.to_datetime(duration, unit='s').dt.time (line 202)
dt_time(secs) == <<(secs \div 3600) % 24, (secs \div 60) % 60, secs % 60>>

\* Lines 201 and 202; .iloc[0] of a frame without rows is an IndexError.
with_duration(merged) ==
    IF merged = <<>> THEN Raise("IndexError")
    ELSE Return([i \in 1..Len(merged) |->
            LET duration == dt_seconds(merged[i].cells["time"].v - merged[1].cells["time"].v)
            IN  [merged[i] EXCEPT !.cells =
                     @ @@ ("duration" :> PyInt(duration))
                       @@ ("hhmmss_1" :> [k |-> "time", v |-> dt_time(duration)])]])

----------------------------------------------------------------------------
(* The script under __main__: the files of the directory.  Each file holds
   its samples in the order they were recorded. *)

MaxFiles == 3

\* The text of a three-digit number
Num(hundreds, tens, units) == Txt(<<48 + hundreds, 48 + tens, 48 + units>>)

\* A wrist-device sample: a time and a heart rate
HrPoint(time, hr) == PlainPoint(Stamp(time, 0), Wrapper(hr), Absent)

\* A rowing-machine sample: a time and a power
WattPoint(time, watts) == PlainPoint(Stamp(time, 0), NoWrapper, watts)

OneLap(start, points) == Document(<<Activity(<<PlainLap(Stamp(start, 0), Track(points))>>)>>)

File(prefix, doc) == [prefix |-> prefix, root |-> doc]

Day == HMS(24, 0, 0)

GarminFiles ==
    {File("activity", OneLap(HMS(10, 0, 5), <<HrPoint(HMS(10, 0, 5), Num(1, 0, 0)),
                                              HrPoint(HMS(10, 0, 15), Num(1, 1, 0))>>)),
     File("activity", OneLap(HMS(10, 0, 0), <<HrPoint(HMS(10, 0, 8), Num(1, 2, 0))>>)),
     File("activity", OneLap(HMS(10, 0, 5), <<>>)),
     File("activity",
          Document(<<Activity(<<PlainLap(Stamp(HMS(10, 0, 5), 0), Track(<<>>)),
                                PlainLap(Stamp(HMS(10, 5, 0), 0),
                                         Track(<<HrPoint(HMS(10, 5, 0), Num(1, 3, 0))>>))>>)>>))}

Concept2Files ==
    {File("concept2", OneLap(HMS(9, 58, 0), <<WattPoint(HMS(9, 58, 0), Num(1, 5, 0)),
                                              WattPoint(HMS(9, 58, 3), Num(1, 6, 0))>>)),
     File("concept2",
          Document(<<Activity(<<[PlainLap(Stamp(HMS(9, 58, 10), 0),
                                          Track(<<WattPoint(HMS(9, 58, 12) + 500, Empty)>>))
                                     EXCEPT !.Calories = Num(0, 1, 2)]>>)>>)),
     File("concept2", OneLap(HMS(9, 58, 20), <<WattPoint(HMS(9, 57, 59), Num(0, 9, 0))>>)),
     File("concept2", OneLap(Day + HMS(9, 58, 0),
                             <<WattPoint(Day + HMS(9, 58, 5), Num(1, 7, 0))>>)),
     File("concept2", OneLap(HMS(9, 58, 0), <<>>)),
     File("concept2", Document(<<Activity(<<>>)>>)),
     File("concept2", NoActivities)}

OtherFiles == {File("notes", NoActivities)}

Files == GarminFiles \cup Concept2Files \cup OtherFiles

Directories == SeqsUpTo(Files, MaxFiles)

----------------------------------------------------------------------------
(* The script under __main__: its steps *)

InitMain ==
    /\ tz \in LocalZones
    /\ lap = Idle /\ lap_data = NotCalled
    /\ trackpoint = Idle /\ point_data = NotCalled
    /\ root = Idle /\ dataframes = NotCalled
    /\ fpath \in Directories
    /\ pc = "listdir" /\ seen = 0 /\ exc = "none"
    /\ laps_df_concept2 = <<>> /\ points_df_concept2 = <<>>
    /\ laps_df_garmin = NoFrame /\ points_df_garmin = NoFrame
    /\ total_seconds = Unbound /\ merged_dataframe = NoFrame

Fail(e) ==
    /\ pc' = "raised"
    /\ exc' = e

\* One turn of the loop over the directory (lines 155 to 161).
ReadFile ==
    /\ pc = "listdir" /\ seen < Len(fpath)
    /\ LET turn(file, frames) ==
               IF file.prefix \notin {"concept2", "activity"}
               THEN UNCHANGED <<pc, exc, laps_df_concept2, points_df_concept2,
                                laps_df_garmin, points_df_garmin>>
               ELSE IF ~frames.returned
               THEN /\ Fail(frames.exc)
                    /\ UNCHANGED <<laps_df_concept2, points_df_concept2, laps_df_garmin,
                                   points_df_garmin>>
               ELSE IF file.prefix = "concept2"
               THEN /\ laps_df_concept2' = Append(laps_df_concept2, frames.value.laps_df)
                    /\ points_df_concept2' =
                           Append(points_df_concept2, frames.value.points_df)
                    /\ UNCHANGED <<pc, exc, laps_df_garmin, points_df_garmin>>
               ELSE /\ laps_df_garmin' = frames.value.laps_df
                    /\ points_df_garmin' = frames.value.points_df
                    /\ UNCHANGED <<pc, exc, laps_df_concept2, points_df_concept2>>
       IN  turn(fpath[seen + 1], get_dataframes(fpath[seen + 1].root))
    /\ seen' = seen + 1
    /\ UNCHANGED <<tz, extraction, fpath, total_seconds, merged_dataframe>>

\* Lines 163 to 166, once the loop is through the directory.
ConcatSort ==
    /\ pc = "listdir" /\ seen = Len(fpath)
    /\ IF ~concat(laps_df_concept2).returned
       THEN /\ Fail(concat(laps_df_concept2).exc)
            /\ UNCHANGED <<laps_df_concept2, points_df_concept2>>
       ELSE /\ laps_df_concept2' \in
                   sort_values(concat(laps_df_concept2).value, "start_time")
            /\ points_df_concept2' \in
                   sort_values(concat(points_df_concept2).value, "time")
            /\ pc' = "offset"
            /\ UNCHANGED exc
    /\ UNCHANGED <<tz, extraction, fpath, seen, laps_df_garmin, points_df_garmin,
                   total_seconds, merged_dataframe>>

\* Lines 176 to 189: the offset between the two devices' first lap starts.
Offset ==
    /\ pc = "offset"
    /\ LET d == difference(min(laps_df_garmin, "start_time"),
                           min(laps_df_concept2, "start_time"))
       IN  IF laps_df_garmin = NoFrame
           THEN Fail("NameError") /\ UNCHANGED total_seconds
           ELSE IF ~d.returned
           THEN Fail(d.exc) /\ UNCHANGED total_seconds
           ELSE IF ~get_total_seconds(d.value).returned
           THEN Fail(get_total_seconds(d.value).exc) /\ UNCHANGED total_seconds
           ELSE /\ total_seconds' = get_total_seconds(d.value).value
                /\ pc' = "shift"
                /\ UNCHANGED exc
    /\ UNCHANGED <<tz, extraction, fpath, seen, laps_df_concept2, points_df_concept2,
                   laps_df_garmin, points_df_garmin, merged_dataframe>>

\* Lines 191 to 197: the rowing machine's timestamps moved by the offset.
Shift ==
    /\ pc = "shift"
    /\ laps_df_concept2' = Shifted(laps_df_concept2, "start_time", timedelta(total_seconds))
    /\ points_df_concept2' = Shifted(points_df_concept2, "time", timedelta(total_seconds))
    /\ pc' = "merge"
    /\ UNCHANGED <<tz, extraction, fpath, seen, laps_df_garmin, points_df_garmin,
                   total_seconds, merged_dataframe, exc>>

\* The exceptions the join of line 200 may end in.  Of two frames without rows
\* the left one has been through line 196, and the dtype that addition leaves
\* its empty time column with decides the class: object still (TypeError, no
\* join function) or another one (MergeError, keys of different dtypes).
\* Either may happen.
JoinErrors(left, right) ==
    IF left = <<>> /\ right = <<>> THEN {"TypeError", "MergeError"}
    ELSE {merge_asof(left, right).exc}

\* Line 200: the join of the two trackpoint tables.
Merge ==
    /\ pc = "merge"
    /\ LET merged == merge_asof(
                        Columns(points_df_concept2, {"time", "distance", "watt", "cadence"}),
                        Columns(points_df_garmin, {"time", "heart_rate"}))
       IN  IF merged.returned
           THEN merged_dataframe' = merged.value /\ pc' = "duration" /\ UNCHANGED exc
           ELSE /\ \E e \in JoinErrors(
                            Columns(points_df_concept2, {"time", "distance", "watt", "cadence"}),
                            Columns(points_df_garmin, {"time", "heart_rate"})) : Fail(e)
                /\ UNCHANGED merged_dataframe
    /\ UNCHANGED <<tz, extraction, fpath, seen, laps_df_concept2, points_df_concept2,
                   laps_df_garmin, points_df_garmin, total_seconds>>

\* Lines 201 to 206: the derived columns, and the report saved.
Duration ==
    /\ pc = "duration"
    /\ IF with_duration(merged_dataframe).returned
       THEN /\ merged_dataframe' = with_duration(merged_dataframe).value
            /\ pc' = "done"
            /\ UNCHANGED exc
       ELSE Fail("IndexError") /\ UNCHANGED merged_dataframe
    /\ UNCHANGED <<tz, extraction, fpath, seen, laps_df_concept2, points_df_concept2,
                   laps_df_garmin, points_df_garmin, total_seconds>>

NextMain == ReadFile \/ ConcatSort \/ Offset \/ Shift \/ Merge \/ Duration

SpecMain == InitMain /\ [][NextMain]_vars

----------------------------------------------------------------------------
(* Properties of the script *)

Devices == {"concept2", "activity"}

\* The places in the directory of the files of one device.
Contributed(prefix) == {i \in 1..Len(fpath) : fpath[i].prefix = prefix}

\* The tables of one device's files, file after file in directory order.
RECURSIVE DeviceRows(_, _, _)
DeviceRows(prefix, table, i) ==
    IF i > Len(fpath) THEN <<>>
    ELSE (IF fpath[i].prefix = prefix /\ get_dataframes(fpath[i].root).returned
          THEN get_dataframes(fpath[i].root).value[table] ELSE <<>>)
            \o DeviceRows(prefix, table, i + 1)

\* Two values are the same number (an int and the float of its value are), or
\* the same anything else.
SameValue(a, b) ==
    \/ a = b
    \/ a.k = "int" /\ b = PyFloat(a.v, 0)
    \/ b.k = "int" /\ a = PyFloat(b.v, 0)

\* Two rows under the same label whose fields are the same values
SameRow(a, b) ==
    /\ a.index = b.index
    /\ DOMAIN a.cells = DOMAIN b.cells
    /\ \A c \in DOMAIN a.cells : SameValue(a.cells[c], b.cells[c])

Count(df, row) == Cardinality({i \in 1..Len(df) : SameRow(df[i], row)})

\* The two frames hold the same rows, each as often, all fields alike.
SameRows(a, b) ==
    /\ Len(a) = Len(b)
    /\ \A i \in 1..Len(a) : Count(a, a[i]) = Count(b, a[i])

\* C7: the lap and trackpoint tables of each device that go into the alignment
\* hold the rows of all of that device's files, every field as extracted, the
\* trackpoints non-decreasing in time and the laps in start_time.
C7_AllFilesOfEachDevice ==
    pc = "offset" =>
        /\ SameRows(laps_df_concept2, DeviceRows("concept2", "laps_df", 1))
        /\ SameRows(points_df_concept2, DeviceRows("concept2", "points_df", 1))
        /\ is_monotonic(laps_df_concept2, "start_time")
        /\ is_monotonic(points_df_concept2, "time")
        /\ laps_df_garmin # NoFrame =>
              /\ SameRows(laps_df_garmin, DeviceRows("activity", "laps_df", 1))
              /\ SameRows(points_df_garmin, DeviceRows("activity", "points_df", 1))
              /\ is_monotonic(laps_df_garmin, "start_time")
              /\ is_monotonic(points_df_garmin, "time")

\* The part of C7 the rowing machine's tables meet on their own.
C7_Concept2Only ==
    pc = "offset" =>
        /\ SameRows(laps_df_concept2, DeviceRows("concept2", "laps_df", 1))
        /\ SameRows(points_df_concept2, DeviceRows("concept2", "points_df", 1))
        /\ is_monotonic(laps_df_concept2, "start_time")
        /\ is_monotonic(points_df_concept2, "time")

\* C6: the shift adds (wrist device's first lap start_time) - (rowing machine's
\* first lap start_time) to every start_time of the rowing machine's lap table
\* and every time of its trackpoint table, and changes nothing else: no other
\* field of those rows, and nothing of the wrist device's tables.  The first lap
\* is the earliest, the first row of the table sorted by start_time.
C6_ShiftByFirstLapOffset ==
    [][pc = "shift" =>
        LET offset == min(laps_df_garmin, "start_time").v
                        - laps_df_concept2[1].cells["start_time"].v
        IN  /\ pc' = "merge"
            /\ Len(laps_df_concept2') = Len(laps_df_concept2)
            /\ \A i \in 1..Len(laps_df_concept2) :
                  laps_df_concept2'[i] =
                      [laps_df_concept2[i] EXCEPT
                          !.cells["start_time"] = PyTime(@.v + offset)]
            /\ Len(points_df_concept2') = Len(points_df_concept2)
            /\ \A i \in 1..Len(points_df_concept2) :
                  points_df_concept2'[i] =
                      [points_df_concept2[i] EXCEPT !.cells["time"] = PyTime(@.v + offset)]
            /\ laps_df_garmin' = laps_df_garmin
            /\ points_df_garmin' = points_df_garmin]_vars

\* First laps at 10:00:05 and 09:58:00: the offset is +125 s, and the rowing
\* machine's first lap and first sample now read 10:00:05 local time.
C6_Witness ==
    /\ pc = "merge"
    /\ total_seconds = PyFloat(125, 0)
    /\ laps_df_garmin[1].cells["start_time"] = PyTime(HMS(10, 0, 5) + tz)
    /\ laps_df_concept2[1].cells["start_time"] = PyTime(HMS(10, 0, 5) + tz)
    /\ Len(points_df_concept2) = 3
    /\ points_df_concept2[1].cells["time"] = PyTime(HMS(10, 0, 4) + tz)
    /\ points_df_concept2[3].cells["time"] = PyTime(HMS(10, 0, 8) + tz)

\* The heart rate of the most recent right row whose time is <= t (the rows
\* being sorted by time), NaN when t precedes them all.
AsOfBackward(right, t) ==
    LET upto == {j \in 1..Len(right) : right[j].cells["time"].v <= t.v}
    IN  IF upto = {} THEN NaN
        ELSE right[CHOOSE j \in upto : \A m \in upto : m <= j].cells["heart_rate"]

\* C1: the merged table has one row per row of the rowing machine's shifted
\* trackpoint table, and its heart_rate is that of the most recent wrist-device
\* sample at or before the row's time, missing when the row precedes them all.
C1_BackwardAsOfJoin ==
    pc \in {"duration", "done"} =>
        /\ Len(merged_dataframe) = Len(points_df_concept2)
        /\ \A i \in 1..Len(merged_dataframe) :
              /\ merged_dataframe[i].cells["time"] = points_df_concept2[i].cells["time"]
              /\ SameValue(merged_dataframe[i].cells["heart_rate"],
                           AsOfBackward(points_df_garmin, merged_dataframe[i].cells["time"]))

\* One device gave no file, or its files gave no trackpoint.
InsufficientData ==
    \E prefix \in Devices :
        \A i \in Contributed(prefix) :
            get_dataframes(fpath[i].root).returned =>
                get_dataframes(fpath[i].root).value.points_df = <<>>

\* C8: when a device contributed no file, or its files yield no trackpoint, the
\* script produces no merged table: it never gets past the join, which raises
\* if the script comes that far, so that it can end in an exception only (one
\* of Python's or pandas': the source defines no error class of its own).
C8_InsufficientDataFails ==
    InsufficientData =>
        /\ merged_dataframe = NoFrame
        /\ pc \notin {"duration", "done"}
        /\ pc = "merge" =>
              ~merge_asof(Columns(points_df_concept2, {"time", "distance", "watt", "cadence"}),
                          Columns(points_df_garmin, {"time", "heart_rate"})).returned

\* The wrist device's only file has a lap without trackpoints, the rowing
\* machine's has samples: the join raised, and no merged table exists.
C8_Witness ==
    /\ pc = "raised" /\ exc = "MergeError"
    /\ merged_dataframe = NoFrame
    /\ Contributed("activity") # {} /\ Contributed("concept2") # {}
    /\ points_df_garmin = <<>>
    /\ Len(points_df_concept2) = 2

\* C10: duration is the number of whole seconds between the first merged row's
\* time and the row's time, however long that span is.
C10_DurationIsElapsedSeconds ==
    pc = "done" =>
        \A i \in 1..Len(merged_dataframe) :
            merged_dataframe[i].cells["duration"] =
                PyInt((merged_dataframe[i].cells["time"].v - merged_dataframe[1].cells["time"].v)
                        \div 1000)

====
